---- MODULE Spec2Model ----
(***************************************************************************)
(* Model of the MFE detector (groupScriptsByDomain, determineShell,        *)
(* detectMfe, extractMfeName) and of the interaction mapper (getRole,      *)
(* getAccessibleName, generateSelector, inferMfeOwner,                     *)
(* extractInteractiveElements, mapInteractions) of                         *)
(* src/src/core/interaction-mapper.ts, and of the generate command         *)
(* (generate, analyze, generateTests).                                     *)
(*                                                                         *)
(* JavaScript strings are sequences of one-character strings, so that      *)
(* toLowerCase, includes, replace, trim and URL parsing are computed, not  *)
(* assumed.  A JavaScript null / undefined is the value Null.              *)
(***************************************************************************)
EXTENDS Naturals, Sequences, FiniteSets

\* ------------------------------------------------------------------------
\* Bounds of the model
\* ------------------------------------------------------------------------

\* largest number of script URLs in a snapshot
MaxScripts == 3

\* largest number of elements in a document
MaxElements == 2

\* the most ancestors an element has below document.body when inferMfeOwner
\* is run on its own
MaxAncestors == 2

\* ------------------------------------------------------------------------
\* JavaScript strings
\* ------------------------------------------------------------------------

\* null / undefined: a value that is no string (no string holds the
\* element "null", every element of a string being one character)
Null == <<"null">>

UpperChars == <<"A","B","C","D","E","F","G","H","I","J","K","L","M",
                "N","O","P","Q","R","S","T","U","V","W","X","Y","Z">>

LowerChars == <<"a","b","c","d","e","f","g","h","i","j","k","l","m",
                "n","o","p","q","r","s","t","u","v","w","x","y","z">>

DigitChars == <<"0","1","2","3","4","5","6","7","8","9">>

Range(s) == {s[i] : i \in 1..Len(s)}

\* the lower-case letter of every upper-case letter
LowerOf ==
    [c \in Range(UpperChars) |->
        LowerChars[CHOOSE i \in 1..Len(UpperChars) : UpperChars[i] = c]]

IsUpper(c) == c \in DOMAIN LowerOf

IsLower(c) == c \in Range(LowerChars)

IsDigit(c) == c \in Range(DigitChars)

IsAlpha(c) == IsUpper(c) \/ IsLower(c)

ToLowerChar(c) == IF IsUpper(c) THEN LowerOf[c] ELSE c

\* String.prototype.toLowerCase
toLowerCase(s) == [i \in 1..Len(s) |-> ToLowerChar(s[i])]

\* String.prototype.includes: sub occurs in s as a contiguous substring
includes(s, sub) ==
    \E k \in 0..(Len(s) - Len(sub)) : SubSeq(s, k + 1, k + Len(sub)) = sub

\* String.prototype.startsWith
startsWith(s, pre) == Len(pre) <= Len(s) /\ SubSeq(s, 1, Len(pre)) = pre

\* index of the first character of s that is in set cs, or Len(s)+1
FirstIn(s, cs) ==
    IF \E i \in 1..Len(s) : s[i] \in cs
    THEN CHOOSE i \in 1..Len(s) : s[i] \in cs /\ \A j \in 1..(i - 1) : s[j] \notin cs
    ELSE Len(s) + 1

\* index of the last character of s that is in set cs, or 0
LastIn(s, cs) ==
    IF \E i \in 1..Len(s) : s[i] \in cs
    THEN CHOOSE i \in 1..Len(s) : s[i] \in cs /\ \A j \in (i + 1)..Len(s) : s[j] \notin cs
    ELSE 0

\* the suffix of s from index i on
From(s, i) == SubSeq(s, i, Len(s))

\* str.replace(/<one character of cs>/g, by)
ReplaceChars(s, cs, by) == [i \in 1..Len(s) |-> IF s[i] \in cs THEN by ELSE s[i]]

DigitValue(c) == (CHOOSE i \in 1..10 : DigitChars[i] = c) - 1

RECURSIVE DigitsToNat(_)
DigitsToNat(ds) ==
    IF ds = <<>> THEN 0
    ELSE 10 * DigitsToNat(SubSeq(ds, 1, Len(ds) - 1)) + DigitValue(ds[Len(ds)])

RECURSIVE NatToDigits(_)
NatToDigits(n) ==
    IF n < 10 THEN <<DigitChars[n + 1]>>
    ELSE NatToDigits(n \div 10) \o <<DigitChars[(n % 10) + 1]>>


\* ------------------------------------------------------------------------
\* String literals of the source and of the modelled inputs
\* ------------------------------------------------------------------------

s_http == <<"h","t","t","p">>

s_https == <<"h","t","t","p","s">>

s_file == <<"f","i","l","e">>

s_localhost == <<"l","o","c","a","l","h","o","s","t">>

s_slashes == <<"/","/">>

s_remoteentry == <<"r","e","m","o","t","e","e","n","t","r","y",".","j","s">>

s_webpack_sharing == <<"w","e","b","p","a","c","k","_","s","h","a","r","i","n","g">>

s_webpack_init_sharing == <<"_","_","w","e","b","p","a","c","k","_","i","n","i","t","_","s","h","a","r","i","n","g","_","_">>

s_mfe_dash == <<"m","f","e","-">>

\* ------------------------------------------------------------------------
\* new URL(urlString) of Node (WHATWG URL), as used by getDomain and
\* extractMfeName, for absolute URLs without a base.  Modelled: scheme
\* syntax and lower-casing, the slashes after a special scheme, userinfo,
\* host lower-casing and forbidden host characters, port syntax, range and
\* default-port elision, file: hosts.  Outside the modelled subset: IPv6
\* literals, numeric IPv4 forms, percent-encoding, IDNA, drive letters.
\* ------------------------------------------------------------------------

UrlFailure == [ok |-> FALSE, protocol |-> <<>>, hostname |-> <<>>, port |-> <<>>]

ForbiddenHostChars == {" ", "<", ">", "[", "]", "^", "|", "%", "#", "?", "/", "\\", "@", ":"}

AuthorityEnd == {"/", "\\", "?", "#"}

DefaultPort(scheme) ==
    IF scheme = s_http THEN 80 ELSE IF scheme = s_https THEN 443 ELSE 65536

\* host[:port] of a URL with an authority; special schemes lower-case the
\* host, need a non-empty host and drop their default port
ParseAuthority(scheme, special, authority) ==
    LET hostport == From(authority, LastIn(authority, {"@"}) + 1)
        c        == FirstIn(hostport, {":"})
        hostRaw  == SubSeq(hostport, 1, c - 1)
        portRaw  == From(hostport, c + 1)
        portOk   == /\ \A i \in 1..Len(portRaw) : IsDigit(portRaw[i])
                    /\ DigitsToNat(portRaw) <= 65535
    IN  IF \/ special /\ hostRaw = <<>>
           \/ \E i \in 1..Len(hostRaw) : hostRaw[i] \in ForbiddenHostChars
           \/ ~portOk
        THEN UrlFailure
        ELSE [ok       |-> TRUE,
              protocol |-> scheme \o <<":">>,
              hostname |-> IF special THEN toLowerCase(hostRaw) ELSE hostRaw,
              port     |-> IF portRaw = <<>> \/ DigitsToNat(portRaw) = DefaultPort(scheme)
                           THEN <<>>
                           ELSE NatToDigits(DigitsToNat(portRaw))]

\* number of leading slashes or backslashes of s
LeadingSlashes(s) == FirstIn(s, {c \in Range(s) : c \notin {"/", "\\"}}) - 1

ParseURL(s) ==
    LET k        == FirstIn(s, {":"})
        schemeOk == /\ 1 < k /\ k <= Len(s)
                    /\ IsAlpha(s[1])
                    /\ \A i \in 2..(k - 1) :
                           IsAlpha(s[i]) \/ IsDigit(s[i]) \/ s[i] \in {"+", "-", "."}
        scheme   == toLowerCase(SubSeq(s, 1, k - 1))
        rest     == From(s, k + 1)
    IN  IF ~schemeOk THEN UrlFailure
        ELSE IF scheme \in {s_http, s_https}
        THEN LET after == From(rest, LeadingSlashes(rest) + 1)
             IN  ParseAuthority(scheme, TRUE,
                                SubSeq(after, 1, FirstIn(after, AuthorityEnd) - 1))
        ELSE IF scheme = s_file
        THEN IF startsWith(rest, s_slashes) \/ startsWith(rest, <<"\\","\\">>)
             THEN LET after == From(rest, 3)
                      h     == toLowerCase(SubSeq(after, 1, FirstIn(after, AuthorityEnd) - 1))
                  IN  IF \E i \in 1..Len(h) : h[i] \in ForbiddenHostChars
                      THEN UrlFailure
                      ELSE [ok |-> TRUE, protocol |-> scheme \o <<":">>,
                            hostname |-> IF h = s_localhost THEN <<>> ELSE h,
                            port |-> <<>>]
             ELSE [ok |-> TRUE, protocol |-> scheme \o <<":">>,
                   hostname |-> <<>>, port |-> <<>>]
        ELSE IF startsWith(rest, s_slashes)
        THEN LET after == From(rest, 3)
             IN  ParseAuthority(scheme, FALSE,
                                SubSeq(after, 1, FirstIn(after, {"/", "?", "#"}) - 1))
        ELSE [ok |-> TRUE, protocol |-> scheme \o <<":">>,
              hostname |-> <<>>, port |-> <<>>]

\* url.host: the hostname, then ":" and the port when there is one
UrlHost(u) == IF u.port = <<>> THEN u.hostname ELSE u.hostname \o <<":">> \o u.port

\* urlString.match(/^(https?:\/\/[^\/]+)/): the matched prefix, or Null
HttpPrefixMatch(s) ==
    LET pre == IF startsWith(s, s_https \o <<":">> \o s_slashes)
               THEN s_https \o <<":">> \o s_slashes
               ELSE IF startsWith(s, s_http \o <<":">> \o s_slashes)
               THEN s_http \o <<":">> \o s_slashes
               ELSE <<>>
        tail == From(s, Len(pre) + 1)
        n    == FirstIn(tail, {"/"}) - 1
    IN  IF pre = <<>> \/ n = 0 THEN Null ELSE pre \o SubSeq(tail, 1, n)

\* ------------------------------------------------------------------------
\* Domain grouper and MFE detector
\* ------------------------------------------------------------------------

\* getDomain: `${url.protocol}//${url.host}`, else the regex prefix, else
\* the whole string
getDomain(urlString) ==
    LET url == ParseURL(urlString)
    IN  IF url.ok
        THEN url.protocol \o s_slashes \o UrlHost(url)
        ELSE IF HttpPrefixMatch(urlString) # Null
             THEN HttpPrefixMatch(urlString)
             ELSE urlString

isModuleFederationScript(scriptUrl) ==
    LET urlLower == toLowerCase(scriptUrl)
    IN  \/ includes(urlLower, s_remoteentry)
        \/ includes(urlLower, s_webpack_init_sharing)
        \/ includes(urlLower, s_webpack_sharing)


\* position of domain among the keys of the Map (a sequence of groups in
\* insertion order), or 0
GroupIndex(domainGroups, domain) ==
    IF \E i \in 1..Len(domainGroups) : domainGroups[i].domain = domain
    THEN CHOOSE i \in 1..Len(domainGroups) : domainGroups[i].domain = domain
    ELSE 0

\* mutant of GroupOneScript: the group of a known domain is set anew, so
\* its earlier scripts and flags are lost
GroupOneScript_Overwrite(domainGroups, scriptUrl) ==
    LET domain == getDomain(scriptUrl)
        fresh  == [domain |-> domain, scripts |-> <<scriptUrl>>,
                   hasRemoteEntry |-> includes(toLowerCase(scriptUrl), s_remoteentry),
                   hasWebpackSharing |->
                       \/ includes(toLowerCase(scriptUrl), s_webpack_sharing)
                       \/ includes(toLowerCase(scriptUrl), s_webpack_init_sharing)]
    IN  IF GroupIndex(domainGroups, domain) = 0
        THEN Append(domainGroups, fresh)
        ELSE [domainGroups EXCEPT ![GroupIndex(domainGroups, domain)] = fresh]

\* one iteration of the loop of groupScriptsByDomain
GroupOneScript(domainGroups, scriptUrl) ==
    LET domain == getDomain(scriptUrl)
        groups == IF GroupIndex(domainGroups, domain) = 0
                  THEN Append(domainGroups,
                              [domain |-> domain, scripts |-> <<>>,
                               hasRemoteEntry |-> FALSE, hasWebpackSharing |-> FALSE])
                  ELSE domainGroups
        g      == GroupIndex(groups, domain)
        lower  == toLowerCase(scriptUrl)
        fed    == isModuleFederationScript(scriptUrl)
    IN  [groups EXCEPT
            ![g].scripts = Append(@, scriptUrl),
            ![g].hasRemoteEntry =
                IF fed /\ includes(lower, s_remoteentry) THEN TRUE ELSE @,
            ![g].hasWebpackSharing =
                IF fed /\ (\/ includes(lower, s_webpack_sharing)
                           \/ includes(lower, s_webpack_init_sharing))
                THEN TRUE ELSE @]

RECURSIVE groupScriptsByDomain(_)
groupScriptsByDomain(scriptUrls) ==
    IF scriptUrls = <<>> THEN <<>>
    ELSE GroupOneScript(groupScriptsByDomain(SubSeq(scriptUrls, 1, Len(scriptUrls) - 1)),
                        scriptUrls[Len(scriptUrls)])

\* mutant of MostScripts: >= for >, the last of the tied groups wins
RECURSIVE MostScripts_LastOfTies(_, _, _, _)
MostScripts_LastOfTies(domainGroups, i, maxScripts, shellDomain) ==
    IF i > Len(domainGroups) THEN shellDomain
    ELSE IF Len(domainGroups[i].scripts) >= maxScripts
         THEN MostScripts_LastOfTies(domainGroups, i + 1,
                                     Len(domainGroups[i].scripts), domainGroups[i].domain)
         ELSE MostScripts_LastOfTies(domainGroups, i + 1, maxScripts, shellDomain)

\* the fallback loop of determineShell: the first group whose script count
\* exceeds every earlier one's and is not exceeded later (strict >)
RECURSIVE MostScripts(_, _, _, _)
MostScripts(domainGroups, i, maxScripts, shellDomain) ==
    IF i > Len(domainGroups) THEN shellDomain
    ELSE IF Len(domainGroups[i].scripts) > maxScripts
         THEN MostScripts(domainGroups, i + 1,
                          Len(domainGroups[i].scripts), domainGroups[i].domain)
         ELSE MostScripts(domainGroups, i + 1, maxScripts, shellDomain)

\* mutant of determineShell: the page domain is not preferred
determineShell_FirstWithoutRemote(domainGroups, pageUrl) ==
    LET noRemote == {i \in 1..Len(domainGroups) : ~domainGroups[i].hasRemoteEntry}
    IN  IF noRemote # {}
        THEN domainGroups[CHOOSE i \in noRemote : \A j \in noRemote : i <= j].domain
        ELSE MostScripts(domainGroups, 1, 0, getDomain(pageUrl))

\* mutant of determineShell: the scan also skips domains with webpack sharing
determineShell_SharingCountsAsRemote(domainGroups, pageUrl) ==
    LET pageDomain == getDomain(pageUrl)
        p          == GroupIndex(domainGroups, pageDomain)
        noRemote   == {i \in 1..Len(domainGroups) :
                          /\ ~domainGroups[i].hasRemoteEntry
                          /\ ~domainGroups[i].hasWebpackSharing}
    IN  IF p # 0 /\ ~domainGroups[p].hasRemoteEntry
        THEN pageDomain
        ELSE IF noRemote # {}
        THEN domainGroups[CHOOSE i \in noRemote : \A j \in noRemote : i <= j].domain
        ELSE MostScripts(domainGroups, 1, 0, pageDomain)

determineShell(domainGroups, pageUrl) ==
    LET pageDomain == getDomain(pageUrl)
        p          == GroupIndex(domainGroups, pageDomain)
        noRemote   == {i \in 1..Len(domainGroups) : ~domainGroups[i].hasRemoteEntry}
    IN  IF p # 0 /\ ~domainGroups[p].hasRemoteEntry
        THEN pageDomain
        ELSE IF noRemote # {}
        THEN domainGroups[CHOOSE i \in noRemote : \A j \in noRemote : i <= j].domain
        ELSE MostScripts(domainGroups, 1, 0, pageDomain)

\* mutant of extractMfeName: the port of a localhost domain is not used
extractMfeName_HostnameOnly(domain) ==
    LET url == ParseURL(domain)
    IN  IF url.ok
        THEN ReplaceChars(url.hostname, {"."}, "-")
        ELSE ReplaceChars(domain,
                          {c \in Range(domain) : ~(IsAlpha(c) \/ IsDigit(c) \/ c = "-")},
                          "-")

extractMfeName(domain) ==
    LET url == ParseURL(domain)
    IN  IF url.ok
        THEN IF url.hostname = s_localhost /\ url.port # <<>>
             THEN s_mfe_dash \o url.port
             ELSE ReplaceChars(url.hostname, {"."}, "-")
        ELSE ReplaceChars(domain,
                          {c \in Range(domain) : ~(IsAlpha(c) \/ IsDigit(c) \/ c = "-")},
                          "-")

\* mutant of IdentifyMfes: only hasRemoteEntry makes a domain an MFE
RECURSIVE IdentifyMfes_RemoteEntryOnly(_, _, _)
IdentifyMfes_RemoteEntryOnly(domainGroups, shellDomain, i) ==
    IF i > Len(domainGroups) THEN <<>>
    ELSE LET group == domainGroups[i]
         IN  IF group.domain # shellDomain /\ group.hasRemoteEntry
             THEN <<[name |-> extractMfeName(group.domain), scripts |-> group.scripts]>>
                  \o IdentifyMfes_RemoteEntryOnly(domainGroups, shellDomain, i + 1)
             ELSE IdentifyMfes_RemoteEntryOnly(domainGroups, shellDomain, i + 1)

\* the loop of detectMfe over the groups from position i on
RECURSIVE IdentifyMfes(_, _, _)
IdentifyMfes(domainGroups, shellDomain, i) ==
    IF i > Len(domainGroups) THEN <<>>
    ELSE LET group == domainGroups[i]
         IN  IF group.domain = shellDomain
             THEN IdentifyMfes(domainGroups, shellDomain, i + 1)
             ELSE IF group.hasRemoteEntry \/ group.hasWebpackSharing
             THEN <<[name |-> extractMfeName(group.domain), scripts |-> group.scripts]>>
                  \o IdentifyMfes(domainGroups, shellDomain, i + 1)
             ELSE IdentifyMfes(domainGroups, shellDomain, i + 1)

detectMfe(snapshot) ==
    LET domainGroups == groupScriptsByDomain(snapshot.scriptUrls)
        shellDomain  == determineShell(domainGroups, snapshot.url)
    IN  [shell |-> shellDomain, mfes |-> IdentifyMfes(domainGroups, shellDomain, 1)]

\* ------------------------------------------------------------------------
\* String literals of the interaction mapper
\* ------------------------------------------------------------------------

\* Element.tagName of the HTML elements the mapper meets, as the DOM gives it
HtmlTag ==
    [button   |-> <<"B","U","T","T","O","N">>,
     a        |-> <<"A">>,
     input    |-> <<"I","N","P","U","T">>,
     select   |-> <<"S","E","L","E","C","T">>,
     textarea |-> <<"T","E","X","T","A","R","E","A">>,
     div      |-> <<"D","I","V">>]

t_button == <<"b","u","t","t","o","n">>

t_a == <<"a">>

t_input == <<"i","n","p","u","t">>

t_select == <<"s","e","l","e","c","t">>

t_textarea == <<"t","e","x","t","a","r","e","a">>



r_button == <<"b","u","t","t","o","n">>

r_link == <<"l","i","n","k">>

r_textbox == <<"t","e","x","t","b","o","x">>

r_combobox == <<"c","o","m","b","o","b","o","x">>

r_checkbox == <<"c","h","e","c","k","b","o","x">>

r_radio == <<"r","a","d","i","o">>

r_generic == <<"g","e","n","e","r","i","c">>

ty_button == <<"b","u","t","t","o","n">>

ty_submit == <<"s","u","b","m","i","t">>

ty_reset == <<"r","e","s","e","t">>

ty_checkbox == <<"c","h","e","c","k","b","o","x">>

ty_radio == <<"r","a","d","i","o">>

ty_text == <<"t","e","x","t">>

s_mfe == <<"m","f","e">>

s_remote == <<"r","e","m","o","t","e">>

s_microfrontend == <<"m","i","c","r","o","f","r","o","n","t","e","n","d">>

s_on == <<"o","n">>

sel_role_open == <<"[","r","o","l","e","=","\"">>

sel_close == <<"\"","]">>

sel_hash == <<"#">>

sel_name_open == <<"[","n","a","m","e","=","\"">>

sel_label_open == <<"[","a","r","i","a","-","l","a","b","e","l","=","\"">>

\* ------------------------------------------------------------------------
\* DOM elements.  An element is a record of the attributes, properties and
\* ancestors the mapper reads; an absent attribute is Null.  ancestors are
\* [id, class] of parentElement, its parentElement, ..., below document.body.
\* ------------------------------------------------------------------------

\* JavaScript truthiness of a string-or-null value
Truthy(v) == v # Null /\ v # <<>>

\* a || b for string-or-null values
OrElse(a, b) == IF Truthy(a) THEN a ELSE b

WhiteSpace == {" ", "\n", "\t"}

\* String.prototype.trim
trim(s) ==
    LET inner == {i \in 1..Len(s) : s[i] \notin WhiteSpace}
    IN  IF inner = {} THEN <<>>
        ELSE SubSeq(s, CHOOSE i \in inner : \A j \in inner : i <= j,
                       CHOOSE i \in inner : \A j \in inner : j <= i)

\* the input types for which HTMLInputElement.type differs from "text" in
\* getRole's branches
KnownInputTypes == {ty_button, ty_submit, ty_reset, ty_checkbox, ty_radio}

\* (element as HTMLInputElement).type || 'text': the type attribute,
\* lower-cased, when it is a known type, else "text"
InputType(element) ==
    IF element.type # Null /\ toLowerCase(element.type) \in KnownInputTypes
    THEN toLowerCase(element.type)
    ELSE ty_text

\* (element as HTMLInputElement).value: the value attribute, else "on" for a
\* checkbox or radio button, else the empty string
InputValue(element) ==
    IF element.value # Null THEN element.value
    ELSE IF InputType(element) \in {ty_checkbox, ty_radio} THEN s_on
    ELSE <<>>

\* element.tagName.toLowerCase(): every read of the tag name in the source
TagName(element) == toLowerCase(element.tagName)

getRole(element) ==
    IF Truthy(element.role) THEN element.role
    ELSE IF TagName(element) = t_button THEN r_button
    ELSE IF TagName(element) = t_a THEN r_link
    ELSE IF TagName(element) = t_input
    THEN IF InputType(element) \in {ty_button, ty_submit, ty_reset} THEN r_button
         ELSE IF InputType(element) = ty_checkbox THEN r_checkbox
         ELSE IF InputType(element) = ty_radio THEN r_radio
         ELSE r_textbox
    ELSE IF TagName(element) = t_select THEN r_combobox
    ELSE IF TagName(element) = t_textarea THEN r_textbox
    ELSE IF element.onclick # Null \/ element.tabindex # Null THEN r_button
    ELSE r_generic

\* v && v.trim(): v is a string that is not blank
NonBlank(v) == Truthy(v) /\ trim(v) # <<>>

\* mutant of getAccessibleName: the text content is tried before aria-label
getAccessibleName_TextFirst(element) ==
    IF trim(element.textContent) # <<>> /\ TagName(element) \in {t_a, t_button}
    THEN trim(element.textContent)
    ELSE IF NonBlank(element.ariaLabel) THEN trim(element.ariaLabel)
    ELSE IF TagName(element) \in {t_input, t_textarea} /\ NonBlank(element.placeholder)
    THEN trim(element.placeholder)
    ELSE IF NonBlank(element.title) THEN trim(element.title)
    ELSE IF TagName(element) = t_input /\ NonBlank(InputValue(element))
    THEN trim(InputValue(element))
    ELSE IF NonBlank(element.imgAlt) THEN trim(element.imgAlt)
    ELSE TagName(element)

getAccessibleName(element) ==
    IF NonBlank(element.ariaLabel) THEN trim(element.ariaLabel)
    ELSE IF trim(element.textContent) # <<>> /\ TagName(element) \in {t_a, t_button}
    THEN trim(element.textContent)
    ELSE IF TagName(element) \in {t_input, t_textarea} /\ NonBlank(element.placeholder)
    THEN trim(element.placeholder)
    ELSE IF NonBlank(element.title) THEN trim(element.title)
    ELSE IF TagName(element) = t_input /\ NonBlank(InputValue(element))
    THEN trim(InputValue(element))
    ELSE IF NonBlank(element.imgAlt) THEN trim(element.imgAlt)
    ELSE TagName(element)

\* ariaLabel.replace(/"/g, '\\"')
RECURSIVE EscapeQuotes(_)
EscapeQuotes(s) ==
    IF s = <<>> THEN <<>>
    ELSE (IF s[1] = "\"" THEN <<"\\", "\"">> ELSE <<s[1]>>) \o EscapeQuotes(Tail(s))

generateSelector(element, role) ==
    IF Truthy(element.id)
    THEN sel_role_open \o role \o sel_close \o sel_hash \o element.id
    ELSE IF Truthy(element.name) /\ TagName(element) \in {t_input, t_select}
    THEN sel_role_open \o role \o sel_close \o sel_name_open \o element.name \o sel_close
    ELSE IF NonBlank(element.ariaLabel)
    THEN sel_role_open \o role \o sel_close
         \o sel_label_open \o EscapeQuotes(element.ariaLabel) \o sel_close
    ELSE TagName(element) \o sel_role_open \o role \o sel_close

\* mutant of FindMatchingMfe: the last matching MFE instead of the first
FindMatchingMfe_Last(mfeList, dataMfe) ==
    LET hits == {k \in 1..Len(mfeList) :
                    \/ includes(toLowerCase(mfeList[k].name), toLowerCase(dataMfe))
                    \/ includes(toLowerCase(dataMfe), toLowerCase(mfeList[k].name))}
    IN  IF hits = {} THEN 0 ELSE CHOOSE k \in hits : \A j \in hits : j <= k

\* mfeAnalysis.mfes.find(...): the first MFE whose name contains the hint or
\* is contained in it, case-insensitively; 0 when there is none
FindMatchingMfe(mfeList, dataMfe) ==
    LET hits == {k \in 1..Len(mfeList) :
                    \/ includes(toLowerCase(mfeList[k].name), toLowerCase(dataMfe))
                    \/ includes(toLowerCase(dataMfe), toLowerCase(mfeList[k].name))}
    IN  IF hits = {} THEN 0 ELSE CHOOSE k \in hits : \A j \in hits : k <= j

\* mutant of ContainerMatch: an MFE named in the container text is preferred
\* to the first MFE when a generic marker is present
ContainerMatch_NameFirst(mfeList, containerText) ==
    LET named == {k \in 1..Len(mfeList) :
                    includes(containerText, toLowerCase(mfeList[k].name))}
        hits  == {k \in 1..Len(mfeList) :
                    \/ includes(containerText, toLowerCase(mfeList[k].name))
                    \/ includes(containerText, s_mfe)
                    \/ includes(containerText, s_remote)
                    \/ includes(containerText, s_microfrontend)}
    IN  IF named # {} THEN CHOOSE k \in named : \A j \in named : k <= j
        ELSE IF hits = {} THEN 0 ELSE CHOOSE k \in hits : \A j \in hits : k <= j

\* the inner for loop of the ancestor walk: the first MFE for which the
\* container text matches; 0 when there is none
ContainerMatch(mfeList, containerText) ==
    LET hits == {k \in 1..Len(mfeList) :
                    \/ includes(containerText, toLowerCase(mfeList[k].name))
                    \/ includes(containerText, s_mfe)
                    \/ includes(containerText, s_remote)
                    \/ includes(containerText, s_microfrontend)}
    IN  IF hits = {} THEN 0 ELSE CHOOSE k \in hits : \A j \in hits : k <= j

\* the while loop of inferMfeOwner from ancestor i on
RECURSIVE WalkAncestors(_, _, _)
WalkAncestors(ancestors, mfeList, i) ==
    IF i > Len(ancestors) THEN Null
    ELSE LET containerId    == ancestors[i].id
             containerClass == ancestors[i].class
             containerText  == toLowerCase(OrElse(containerId, <<>>) \o <<" ">>
                                           \o OrElse(containerClass, <<>>))
         IN  IF (Truthy(containerId) \/ Truthy(containerClass))
                /\ ContainerMatch(mfeList, containerText) # 0
             THEN mfeList[ContainerMatch(mfeList, containerText)].name
             ELSE WalkAncestors(ancestors, mfeList, i + 1)

inferMfeOwner(element, analysis) ==
    LET dataMfe == OrElse(element.dataMfe,
                          OrElse(element.dataMicrofrontend, element.dataRemote))
    IN  IF Truthy(dataMfe) /\ FindMatchingMfe(analysis.mfes, dataMfe) # 0
        THEN analysis.mfes[FindMatchingMfe(analysis.mfes, dataMfe)].name
        ELSE WalkAncestors(element.ancestors, analysis.mfes, 1)

\* ------------------------------------------------------------------------
\* Interaction mapper
\* ------------------------------------------------------------------------

ButtonTypes == {ty_button, ty_submit, ty_reset}

\* 'button, input[type="button"], input[type="submit"], input[type="reset"],
\* [role="button"]'
MatchesButtonQuery(element) ==
    \/ TagName(element) = t_button
    \/ TagName(element) = t_input /\ element.type \in ButtonTypes
    \/ element.role = r_button

\* 'a[href], [role="link"]'
MatchesLinkQuery(element) ==
    \/ TagName(element) = t_a /\ element.href # Null
    \/ element.role = r_link

\* 'input:not([type="button"]):not([type="submit"]):not([type="reset"]),
\* textarea, select, [role="textbox"], [role="combobox"], [role="checkbox"],
\* [role="radio"]'
MatchesInputQuery(element) ==
    \/ TagName(element) = t_input /\ element.type \notin ButtonTypes
    \/ TagName(element) \in {t_textarea, t_select}
    \/ element.role \in {r_textbox, r_combobox, r_checkbox, r_radio}

QueryMatches(pass, element) ==
    IF pass = "buttons" THEN MatchesButtonQuery(element)
    ELSE IF pass = "links" THEN MatchesLinkQuery(element)
    ELSE MatchesInputQuery(element)

\* mutant of AcceptsRole: a pass keeps whatever its query matched
AcceptsRole_Any(pass, role) == TRUE

\* the role test of each pass
AcceptsRole(pass, role) ==
    IF pass = "buttons" THEN role = r_button
    ELSE IF pass = "links" THEN role = r_link
    ELSE role \in {r_textbox, r_combobox, r_checkbox, r_radio}

\* mutant of VisitElement: processedElements is not consulted
VisitElement_Unguarded(pass, doc, analysis, i, st) ==
    IF ~QueryMatches(pass, doc[i]) THEN st
    ELSE LET role == getRole(doc[i])
         IN  [processed |-> st.processed \cup {i},
              elements  |->
                  IF AcceptsRole(pass, role)
                  THEN Append(st.elements,
                              [role           |-> role,
                               accessibleName |-> getAccessibleName(doc[i]),
                               selector       |-> generateSelector(doc[i], role),
                               tagName        |-> TagName(doc[i]),
                               mfeOwner       |-> inferMfeOwner(doc[i], analysis),
                               node           |-> i])
                  ELSE st.elements]

\* mutant of VisitElement: the element is added to processedElements only
\* when the pass keeps it
VisitElement_MarkOnAccept(pass, doc, analysis, i, st) ==
    IF ~QueryMatches(pass, doc[i]) \/ i \in st.processed THEN st
    ELSE LET role == getRole(doc[i])
         IN  IF AcceptsRole(pass, role)
             THEN [processed |-> st.processed \cup {i},
                   elements  |->
                       Append(st.elements,
                              [role           |-> role,
                               accessibleName |-> getAccessibleName(doc[i]),
                               selector       |-> generateSelector(doc[i], role),
                               tagName        |-> TagName(doc[i]),
                               mfeOwner       |-> inferMfeOwner(doc[i], analysis),
                               node           |-> i])]
             ELSE st

\* the callback of a pass's forEach for the element at position i of the
\* document; st is [processed, elements].  node is the identity of the
\* element the entry was made from
VisitElement(pass, doc, analysis, i, st) ==
    IF ~QueryMatches(pass, doc[i]) \/ i \in st.processed THEN st
    ELSE LET role == getRole(doc[i])
         IN  [processed |-> st.processed \cup {i},
              elements  |->
                  IF AcceptsRole(pass, role)
                  THEN Append(st.elements,
                              [role           |-> role,
                               accessibleName |-> getAccessibleName(doc[i]),
                               selector       |-> generateSelector(doc[i], role),
                               tagName        |-> TagName(doc[i]),
                               mfeOwner       |-> inferMfeOwner(doc[i], analysis),
                               node           |-> i])
                  ELSE st.elements]

\* querySelectorAll(...).forEach(...) of one pass, from position i on
RECURSIVE RunPass(_, _, _, _, _)
RunPass(pass, doc, analysis, i, st) ==
    IF i > Len(doc) THEN st
    ELSE RunPass(pass, doc, analysis, i + 1, VisitElement(pass, doc, analysis, i, st))

extractInteractiveElements(doc, analysis) ==
    RunPass("inputs", doc, analysis, 1,
        RunPass("links", doc, analysis, 1,
            RunPass("buttons", doc, analysis, 1,
                [processed |-> {}, elements |-> <<>>]))).elements

\* mutant of EmptyBuckets: no bucket is created in advance
EmptyBuckets_None(analysis) == [n \in {} |-> <<>>]

\* mfes[mfe.name] = [] for every known MFE
EmptyBuckets(analysis) ==
    [n \in {analysis.mfes[k].name : k \in 1..Len(analysis.mfes)} |-> <<>>]

\* mutant of GroupOneElement: the else is missing, an owned element is
\* pushed to the shell bucket too
GroupOneElement_NoElse(map, element) ==
    IF Truthy(element.mfeOwner) /\ element.mfeOwner \in DOMAIN map.mfes
    THEN [map EXCEPT !.mfes[element.mfeOwner] = Append(@, element),
                     !.shell = Append(@, element)]
    ELSE [map EXCEPT !.shell = Append(@, element)]

\* one iteration of the grouping loop of mapInteractions
GroupOneElement(map, element) ==
    IF Truthy(element.mfeOwner) /\ element.mfeOwner \in DOMAIN map.mfes
    THEN [map EXCEPT !.mfes[element.mfeOwner] = Append(@, element)]
    ELSE [map EXCEPT !.shell = Append(@, element)]

RECURSIVE GroupElementsFrom(_, _, _)
GroupElementsFrom(extracted, i, map) ==
    IF i > Len(extracted) THEN map
    ELSE GroupElementsFrom(extracted, i + 1, GroupOneElement(map, extracted[i]))

\* the grouping of mapInteractions
GroupByOwner(extracted, analysis) ==
    GroupElementsFrom(extracted, 1, [shell |-> <<>>, mfes |-> EmptyBuckets(analysis)])

mapInteractions(doc, analysis) ==
    GroupByOwner(extractInteractiveElements(doc, analysis), analysis)

\* ------------------------------------------------------------------------
\* Inputs of the detector: script URLs and page URLs
\* ------------------------------------------------------------------------

\* http://localhost:3000/main.js
u_shell_main ==
    <<"h","t","t","p",":","/","/","l","o","c","a","l","h","o","s","t",":","3","0","0","0","/","m","a","i","n",".","j","s">>

\* http://localhost:3000/remoteEntry.js
u_shell_remote ==
    <<"h","t","t","p",":","/","/","l","o","c","a","l","h","o","s","t",":","3","0","0","0","/","r","e","m","o","t","e","E","n","t","r","y",".","j","s">>

\* http://localhost:3001/remoteEntry.js
u_mfe1_remote ==
    <<"h","t","t","p",":","/","/","l","o","c","a","l","h","o","s","t",":","3","0","0","1","/","r","e","m","o","t","e","E","n","t","r","y",".","j","s">>

\* https://a.com/REMOTEENTRY.JS
u_acom_remote ==
    <<"h","t","t","p","s",":","/","/","a",".","c","o","m","/","R","E","M","O","T","E","E","N","T","R","Y",".","J","S">>

\* HTTP://A.com:80/webpack_sharing.js
u_acom_sharing ==
    <<"H","T","T","P",":","/","/","A",".","c","o","m",":","8","0","/","w","e","b","p","a","c","k","_","s","h","a","r","i","n","g",".","j","s">>

\* http://a.com/x.js
u_acom_plain ==
    <<"h","t","t","p",":","/","/","a",".","c","o","m","/","x",".","j","s">>

\* //c/remoteEntry.js
u_relative ==
    <<"/","/","c","/","r","e","m","o","t","e","E","n","t","r","y",".","j","s">>

\* http://a b/x.js
u_badhost ==
    <<"h","t","t","p",":","/","/","a"," ","b","/","x",".","j","s">>

\* file:///remoteEntry.js
u_file ==
    <<"f","i","l","e",":","/","/","/","r","e","m","o","t","e","E","n","t","r","y",".","j","s">>

\* http://localhost:3000/
p_shell ==
    <<"h","t","t","p",":","/","/","l","o","c","a","l","h","o","s","t",":","3","0","0","0","/">>

\* https://a.com/app
p_acom ==
    <<"h","t","t","p","s",":","/","/","a",".","c","o","m","/","a","p","p">>

\* http://A.com/
p_acom_http ==
    <<"h","t","t","p",":","/","/","A",".","c","o","m","/">>

\* file:///index.html
p_file ==
    <<"f","i","l","e",":","/","/","/","i","n","d","e","x",".","h","t","m","l">>

ScriptUrlUniverse ==
    {u_shell_main, u_shell_remote, u_mfe1_remote, u_acom_remote, u_acom_sharing,
     u_acom_plain, u_relative, u_badhost, u_file}

PageUrlUniverse == {p_shell, p_acom, p_acom_http, p_file}

\* sequences of at most n distinct members of set S
RECURSIVE DistinctSeqs(_, _)
DistinctSeqs(S, n) ==
    IF n = 0 THEN {<<>>}
    ELSE LET shorter == DistinctSeqs(S, n - 1)
         IN  shorter \cup
             {Append(p[1], p[2]) :
                 p \in {q \in shorter \X S : Len(q[1]) = n - 1 /\ q[2] \notin Range(q[1])}}

\* PageSnapshot values read by the detector: the final URL and the
\* deduplicated script URLs (Array.from of a Set)
Snapshots ==
    [url : PageUrlUniverse, scriptUrls : DistinctSeqs(ScriptUrlUniverse, MaxScripts)]

\* ------------------------------------------------------------------------
\* Inputs of the mapper: DOM elements, documents and MFE analyses
\* ------------------------------------------------------------------------

BaseElement ==
    [tagName |-> HtmlTag.div, role |-> Null, type |-> Null, href |-> Null, id |-> Null,
     class |-> Null, name |-> Null, ariaLabel |-> Null, textContent |-> <<>>,
     placeholder |-> Null, title |-> Null, value |-> Null, imgAlt |-> Null,
     onclick |-> Null, tabindex |-> Null, dataMfe |-> Null,
     dataMicrofrontend |-> Null, dataRemote |-> Null, ancestors |-> <<>>]

\* <button id="btn1" aria-label="Submit Order">Go</button>
e_button_plain ==
    [BaseElement EXCEPT
        !.tagName = HtmlTag.button,
        !.id = <<"b","t","n","1">>,
        !.ariaLabel = <<"S","u","b","m","i","t"," ","O","r","d","e","r">>,
        !.textContent = <<"G","o">>]

\* <button role="link" data-mfe="MFE-3001">Go</button>
e_button_as_link ==
    [BaseElement EXCEPT
        !.tagName = HtmlTag.button,
        !.role = <<"l","i","n","k">>,
        !.dataMfe = <<"M","F","E","-","3","0","0","1">>,
        !.textContent = <<"G","o">>]

\* <div class="remote-box"><a href="/">Home</a></div>
e_link ==
    [BaseElement EXCEPT
        !.tagName = HtmlTag.a,
        !.href = <<"/">>,
        !.textContent = <<"H","o","m","e">>,
        !.ancestors = <<[id |-> Null, class |-> <<"r","e","m","o","t","e","-","b","o","x">>]>>]

\* <div id="a-com-root"><a href="/" role="button">Buy</a></div>
e_link_as_button ==
    [BaseElement EXCEPT
        !.tagName = HtmlTag.a,
        !.href = <<"/">>,
        !.role = <<"b","u","t","t","o","n">>,
        !.textContent = <<"B","u","y">>,
        !.ancestors = <<[id |-> <<"a","-","c","o","m","-","r","o","o","t">>, class |-> Null]>>]

\* <input type="submit" role="textbox" value="Send">
e_submit_as_textbox ==
    [BaseElement EXCEPT
        !.tagName = HtmlTag.input,
        !.type = <<"s","u","b","m","i","t">>,
        !.role = <<"t","e","x","t","b","o","x">>,
        !.value = <<"S","e","n","d">>]

\* <input type="text" placeholder="Name" data-mfe="x">
e_text_input ==
    [BaseElement EXCEPT
        !.tagName = HtmlTag.input,
        !.type = <<"t","e","x","t">>,
        !.placeholder = <<"N","a","m","e">>,
        !.dataMfe = <<"x">>]

\* <input type="checkbox" role="button" data-remote="a-com">
e_checkbox_as_button ==
    [BaseElement EXCEPT
        !.tagName = HtmlTag.input,
        !.type = <<"c","h","e","c","k","b","o","x">>,
        !.role = <<"b","u","t","t","o","n">>,
        !.dataRemote = <<"a","-","c","o","m">>]

\* <div id="MFE-3001-app"><div class="row"><select name="s"></select></div></div>
e_select ==
    [BaseElement EXCEPT
        !.tagName = HtmlTag.select,
        !.name = <<"s">>,
        !.ancestors = <<[id |-> Null, class |-> <<"r","o","w">>], [id |-> <<"M","F","E","-","3","0","0","1","-","a","p","p">>, class |-> Null]>>]

\* <div role="link" tabindex="0" title="More"></div>
e_div_link ==
    [BaseElement EXCEPT
        !.tagName = HtmlTag.div,
        !.role = <<"l","i","n","k">>,
        !.tabindex = <<"0">>,
        !.title = <<"M","o","r","e">>]

\* <a>Top</a>
e_anchor_no_href ==
    [BaseElement EXCEPT
        !.tagName = HtmlTag.a,
        !.textContent = <<"T","o","p">>]

\* <a href="/" role="tab">Tab</a>
e_link_as_tab ==
    [BaseElement EXCEPT
        !.tagName = HtmlTag.a,
        !.href = <<"/">>,
        !.role = <<"t","a","b">>,
        !.textContent = <<"T","a","b">>]

\* <textarea data-mfe="zzz" data-remote="mfe-3001"></textarea>
e_textarea ==
    [BaseElement EXCEPT
        !.tagName = HtmlTag.textarea,
        !.dataMfe = <<"z","z","z">>,
        !.dataRemote = <<"m","f","e","-","3","0","0","1">>]

ElementUniverse ==
    {e_button_plain, e_button_as_link, e_link,
     e_link_as_button, e_submit_as_textbox, e_text_input,
     e_checkbox_as_button, e_select, e_div_link,
     e_anchor_no_href, e_link_as_tab, e_textarea}

\* sequences of at most n members of set S
RECURSIVE SeqsUpTo(_, _)
SeqsUpTo(S, n) ==
    IF n = 0 THEN {<<>>}
    ELSE LET shorter == SeqsUpTo(S, n - 1)
         IN  shorter \cup {Append(s, x) : s \in {t \in shorter : Len(t) = n - 1}, x \in S}

\* the parsed documents: the elements of the body in document order
Documents == SeqsUpTo(ElementUniverse, MaxElements)

\* the MfeAnalysis records given to mapInteractions: results of detectMfe
\* with no MFE, two MFEs, two MFEs of one name, and an MFE of a file: origin,
\* whose name is the empty string
Analyses ==
    {detectMfe([url |-> p_shell, scriptUrls |-> s]) :
        s \in {<<u_shell_main>>,
               <<u_shell_main, u_mfe1_remote, u_acom_remote>>,
               <<u_shell_main, u_acom_remote, u_acom_sharing>>,
               <<u_shell_main, u_file, u_mfe1_remote>>,
               <<u_shell_main, u_acom_sharing, u_file>>}}

\* ------------------------------------------------------------------------
\* State
\* ------------------------------------------------------------------------

VARIABLES
    pc,                 \* position in the run
    snapshot,           \* the PageSnapshot given to detectMfe
    cursor,             \* index of the next script URL of groupScriptsByDomain's loop
    domainGroups,       \* the Map of groupScriptsByDomain, in insertion order
    shell,              \* the result of determineShell
    mfes,               \* MfeAnalysis.mfes built by detectMfe
    document,           \* the parsed document given to extractInteractiveElements
    mfeAnalysis,        \* the MfeAnalysis given to mapInteractions
    elements,           \* the elements array of extractInteractiveElements
    processedElements,  \* the processedElements set (positions in document)
    interactionMap,     \* the InteractionMap built by mapInteractions
    subject,            \* the element given to getAccessibleName or inferMfeOwner
    accessibleName,     \* the value getAccessibleName returned
    mfeOwner,           \* the value inferMfeOwner returned
    files,              \* the files present under outputs/
    tests,              \* the files present under generated-tests/
    needsAnalysis,      \* the local of generate
    browser             \* the local of analyze: "null", "open" or "closed"

detectVars == <<snapshot, cursor, domainGroups, shell, mfes>>

mapVars == <<document, mfeAnalysis, elements, processedElements, interactionMap>>

resolveVars == <<subject, accessibleName, mfeOwner>>

generateVars == <<files, tests, needsAnalysis, browser>>

vars == <<pc, detectVars, mapVars, resolveVars, generateVars>>

\* the detector's variables while the mapper runs
DetectorIdle ==
    /\ snapshot = [url |-> p_shell, scriptUrls |-> <<>>]
    /\ cursor = 1
    /\ domainGroups = <<>>
    /\ shell = Null
    /\ mfes = <<>>

\* the mapper's variables while the detector runs
MapperIdle ==
    /\ document = <<>>
    /\ mfeAnalysis = [shell |-> Null, mfes |-> <<>>]
    /\ elements = <<>>
    /\ processedElements = {}
    /\ interactionMap = [shell |-> <<>>, mfes |-> <<>>]

\* the variables of the resolvers run on their own, while they are not
ResolversIdle ==
    /\ subject = Null
    /\ accessibleName = Null
    /\ mfeOwner = Null

\* the variables of generate while generate does not run
GenerateIdle ==
    /\ files = {}
    /\ tests = {}
    /\ needsAnalysis = FALSE
    /\ browser = "null"

\* ------------------------------------------------------------------------
\* detectMfe, step by step
\* ------------------------------------------------------------------------

InitDetect ==
    /\ pc = "group"
    /\ snapshot \in Snapshots
    /\ cursor = 1
    /\ domainGroups = <<>>
    /\ shell = Null
    /\ mfes = <<>>
    /\ MapperIdle
    /\ ResolversIdle
    /\ GenerateIdle

\* one iteration of the for loop of groupScriptsByDomain
GroupScript ==
    /\ pc = "group"
    /\ cursor <= Len(snapshot.scriptUrls)
    /\ domainGroups' = GroupOneScript(domainGroups, snapshot.scriptUrls[cursor])
    /\ cursor' = cursor + 1
    /\ UNCHANGED <<pc, snapshot, shell, mfes, mapVars, resolveVars, generateVars>>

\* groupScriptsByDomain returns; detectMfe calls determineShell
DetermineShell ==
    /\ pc = "group"
    /\ cursor > Len(snapshot.scriptUrls)
    /\ shell' = determineShell(domainGroups, snapshot.url)
    /\ pc' = "remotes"
    /\ UNCHANGED <<snapshot, cursor, domainGroups, mfes, mapVars, resolveVars, generateVars>>

\* the loop of detectMfe over the groups, and its return
IdentifyRemotes ==
    /\ pc = "remotes"
    /\ mfes' = IdentifyMfes(domainGroups, shell, 1)
    /\ pc' = "detected"
    /\ UNCHANGED <<snapshot, cursor, domainGroups, shell, mapVars, resolveVars, generateVars>>

NextDetect == GroupScript \/ DetermineShell \/ IdentifyRemotes

SpecDetect == InitDetect /\ [][NextDetect]_vars

\* ------------------------------------------------------------------------
\* mapInteractions, step by step
\* ------------------------------------------------------------------------

InitMap ==
    /\ pc = "buttons"
    /\ document \in Documents
    /\ mfeAnalysis \in Analyses
    /\ elements = <<>>
    /\ processedElements = {}
    /\ interactionMap = [shell |-> <<>>, mfes |-> <<>>]
    /\ DetectorIdle
    /\ ResolversIdle
    /\ GenerateIdle

\* the effect of one pass of extractInteractiveElements on the elements
\* array and the processedElements set
PassEffect(pass) ==
    LET st == RunPass(pass, document, mfeAnalysis, 1,
                      [processed |-> processedElements, elements |-> elements])
    IN  /\ processedElements' = st.processed
        /\ elements' = st.elements

\* the first pass: buttons
ExtractButtons ==
    /\ pc = "buttons"
    /\ PassEffect("buttons")
    /\ pc' = "links"
    /\ UNCHANGED <<document, mfeAnalysis, interactionMap, detectVars, resolveVars, generateVars>>

\* the second pass: links
ExtractLinks ==
    /\ pc = "links"
    /\ PassEffect("links")
    /\ pc' = "inputs"
    /\ UNCHANGED <<document, mfeAnalysis, interactionMap, detectVars, resolveVars, generateVars>>

\* the third pass: form controls; extractInteractiveElements returns
ExtractInputs ==
    /\ pc = "inputs"
    /\ PassEffect("inputs")
    /\ pc' = "grouping"
    /\ UNCHANGED <<document, mfeAnalysis, interactionMap, detectVars, resolveVars, generateVars>>

\* the grouping of mapInteractions and its return
GroupElements ==
    /\ pc = "grouping"
    /\ interactionMap' = GroupByOwner(elements, mfeAnalysis)
    /\ pc' = "mapped"
    /\ UNCHANGED <<document, mfeAnalysis, elements, processedElements, detectVars, resolveVars, generateVars>>

NextMap == ExtractButtons \/ ExtractLinks \/ ExtractInputs \/ GroupElements

SpecMap == InitMap /\ [][NextMap]_vars

\* ------------------------------------------------------------------------
\* The detector's contract, stated over its input alone
\* ------------------------------------------------------------------------

\* getDomain and the two indicator tests of every URL of the input universe,
\* tabulated once
OriginOf == [u \in ScriptUrlUniverse \cup PageUrlUniverse |-> getDomain(u)]

ContainsRemoteEntry ==
    [u \in ScriptUrlUniverse |-> includes(toLowerCase(u), s_remoteentry)]

ContainsWebpackSharing ==
    [u \in ScriptUrlUniverse |->
        \/ includes(toLowerCase(u), s_webpack_sharing)
        \/ includes(toLowerCase(u), s_webpack_init_sharing)]

PageOrigin == OriginOf[snapshot.url]

ScriptOrigins == {OriginOf[u] : u \in Range(snapshot.scriptUrls)}

\* the script URLs of origin o, in the order of the input
ScriptsOfOrigin(o) == SelectSeq(snapshot.scriptUrls, LAMBDA u : OriginOf[u] = o)

\* index in the input of the first script URL of origin o
FirstSeen(o) ==
    CHOOSE i \in 1..Len(snapshot.scriptUrls) :
        /\ OriginOf[snapshot.scriptUrls[i]] = o
        /\ \A j \in 1..(i - 1) : OriginOf[snapshot.scriptUrls[j]] # o

OriginHasRemoteEntry(o) ==
    \E u \in Range(ScriptsOfOrigin(o)) : ContainsRemoteEntry[u]

OriginHasWebpackSharing(o) ==
    \E u \in Range(ScriptsOfOrigin(o)) : ContainsWebpackSharing[u]

OriginsWithoutRemoteEntry == {o \in ScriptOrigins : ~OriginHasRemoteEntry(o)}

GroupingDone == pc # "group" \/ cursor > Len(snapshot.scriptUrls)

ShellDecided == pc \in {"remotes", "detected"}

\* the origins that must become MfeInfo entries, and the position of each
RemoteOrigins ==
    {o \in ScriptOrigins :
        o # shell /\ (OriginHasRemoteEntry(o) \/ OriginHasWebpackSharing(o))}

RemoteRank(o) == Cardinality({q \in RemoteOrigins : FirstSeen(q) <= FirstSeen(o)})

\* C3: when the page origin is a script origin and no script of it contains
\* remoteentry.js (case-insensitively), determineShell returns the page
\* origin, whatever the order of the scripts and the other origins.
C3_PageOriginIsShell ==
    (ShellDecided /\ PageOrigin \in ScriptOrigins /\ ~OriginHasRemoteEntry(PageOrigin))
        => shell = PageOrigin

\* C3 witness: the page origin is the shell although another origin without
\* a remote entry was seen before it.
C3_Witness ==
    /\ ShellDecided
    /\ PageOrigin \in ScriptOrigins
    /\ ~OriginHasRemoteEntry(PageOrigin)
    /\ \E o \in OriginsWithoutRemoteEntry : FirstSeen(o) < FirstSeen(PageOrigin)
    /\ shell = PageOrigin

\* C4: when the page origin is no script origin or has a remote entry, and
\* some script origin has none, the shell is the earliest-seen origin without
\* a remote entry, webpack sharing or not.
C4_FirstOriginWithoutRemoteEntry ==
    (/\ ShellDecided
     /\ PageOrigin \notin ScriptOrigins \/ OriginHasRemoteEntry(PageOrigin)
     /\ OriginsWithoutRemoteEntry # {})
        => /\ shell \in OriginsWithoutRemoteEntry
           /\ \A o \in OriginsWithoutRemoteEntry : FirstSeen(shell) <= FirstSeen(o)

\* C4 witness: the chosen shell has webpack sharing, is not the first origin
\* seen, and a later origin has no remote entry either.
C4_Witness ==
    /\ ShellDecided
    /\ PageOrigin \notin ScriptOrigins \/ OriginHasRemoteEntry(PageOrigin)
    /\ shell \in OriginsWithoutRemoteEntry
    /\ OriginHasWebpackSharing(shell)
    /\ FirstSeen(shell) > 1
    /\ \E o \in OriginsWithoutRemoteEntry : FirstSeen(shell) < FirstSeen(o)

\* C5: when every script origin has a remote entry, the shell is the origin
\* with the most scripts, the earliest seen among those with the maximum;
\* with no script URLs at all the shell is the page origin.
C5_MostScriptsOrPageOrigin ==
    ShellDecided =>
        /\ (ScriptOrigins # {} /\ OriginsWithoutRemoteEntry = {})
              => /\ shell \in ScriptOrigins
                 /\ \A o \in ScriptOrigins :
                       \/ Len(ScriptsOfOrigin(o)) < Len(ScriptsOfOrigin(shell))
                       \/ /\ Len(ScriptsOfOrigin(o)) = Len(ScriptsOfOrigin(shell))
                          /\ FirstSeen(shell) <= FirstSeen(o)
        /\ snapshot.scriptUrls = <<>> => shell = PageOrigin

\* C5 witness: every origin has a remote entry, two origins tie for the most
\* scripts, and the shell is neither the page origin nor the last origin.
C5_Witness ==
    /\ ShellDecided
    /\ OriginsWithoutRemoteEntry = {}
    /\ shell # PageOrigin
    /\ \E o \in ScriptOrigins :
          /\ o # shell
          /\ Len(ScriptsOfOrigin(o)) = Len(ScriptsOfOrigin(shell))
          /\ FirstSeen(shell) < FirstSeen(o)

\* C6: mfes has exactly one entry per script origin that is not the shell and
\* has hasRemoteEntry or hasWebpackSharing, in first-seen order, each with the
\* origin's scripts in discovery order; no other origin yields an entry.
C6_RemotesAreFlaggedNonShellOrigins ==
    pc = "detected" =>
        /\ Len(mfes) = Cardinality(RemoteOrigins)
        /\ \A o \in RemoteOrigins :
              /\ mfes[RemoteRank(o)].scripts = ScriptsOfOrigin(o)
              /\ mfes[RemoteRank(o)].name = extractMfeName(o)

\* C6 witness: a remote known by webpack sharing alone, beside a shell and
\* an origin with neither flag that yields no entry.
C6_Witness ==
    /\ pc = "detected"
    /\ shell \in ScriptOrigins
    /\ \E o \in ScriptOrigins \ RemoteOrigins : o # shell
    /\ \E o \in RemoteOrigins : ~OriginHasRemoteEntry(o)
    /\ Len(mfes) = 1

\* C7 as claimed: no two entries of mfes have the same name.
C7_NamesUnique ==
    pc = "detected" =>
        \A i, j \in 1..Len(mfes) : i # j => mfes[i].name # mfes[j].name

\* the port of an origin http(s)://localhost:<digits>, or Null
LocalhostPort(o) ==
    LET pre  == IF startsWith(o, s_https) THEN s_https ELSE s_http
        head == pre \o <<":">> \o s_slashes \o s_localhost \o <<":">>
        port == From(o, Len(head) + 1)
    IN  IF startsWith(o, head) /\ port # <<>> /\ \A i \in 1..Len(port) : IsDigit(port[i])
        THEN port
        ELSE Null

\* C7 as amended: entries of localhost origins with different explicit ports
\* have different names (names of other origins may collide).
C7_LocalhostPortsNamedApart ==
    pc = "detected" =>
        \A o1, o2 \in RemoteOrigins :
            (/\ LocalhostPort(o1) # Null
             /\ LocalhostPort(o2) # Null
             /\ LocalhostPort(o1) # LocalhostPort(o2))
                => mfes[RemoteRank(o1)].name # mfes[RemoteRank(o2)].name

\* C7 witness: two localhost remotes with different ports in one analysis.
C7_Witness ==
    /\ pc = "detected"
    /\ \E o1, o2 \in RemoteOrigins :
          /\ LocalhostPort(o1) # Null
          /\ LocalhostPort(o2) # Null
          /\ LocalhostPort(o1) # LocalhostPort(o2)

\* C8: the groups partition the script URLs by origin: each URL is in exactly
\* one group, two URLs share a group exactly when they share an origin, each
\* group keeps the input's relative order, and the groups are in the order
\* in which their origins first appear.
C8_GroupsPartitionByOrigin ==
    GroupingDone =>
        /\ \A u \in Range(snapshot.scriptUrls) :
              Cardinality({p \in (1..Len(domainGroups)) \X (1..Len(snapshot.scriptUrls)) :
                              /\ p[2] <= Len(domainGroups[p[1]].scripts)
                              /\ domainGroups[p[1]].scripts[p[2]] = u}) = 1
        /\ \A g \in 1..Len(domainGroups) :
              /\ domainGroups[g].domain \in ScriptOrigins
              /\ domainGroups[g].scripts = ScriptsOfOrigin(domainGroups[g].domain)
        /\ \A g, h \in 1..Len(domainGroups) :
              g < h => FirstSeen(domainGroups[g].domain) < FirstSeen(domainGroups[h].domain)
        /\ Len(domainGroups) = Cardinality(ScriptOrigins)

\* C8 witness: two URLs written differently but of one origin share a group,
\* with a URL of another origin between them in the input.
C8_Witness ==
    /\ GroupingDone
    /\ Len(domainGroups) = 2
    /\ Len(snapshot.scriptUrls) = 3
    /\ OriginOf[snapshot.scriptUrls[1]] = OriginOf[snapshot.scriptUrls[3]]
    /\ Len(domainGroups[1].scripts) = 2

\* ------------------------------------------------------------------------
\* The mapper's contract
\* ------------------------------------------------------------------------

ExtractionDone == pc \in {"grouping", "mapped"}

MapDone == pc = "mapped"

KnownMfeNames == {mfeAnalysis.mfes[k].name : k \in 1..Len(mfeAnalysis.mfes)}

\* the places of the InteractionMap: <<0, <<>>, k>> is shell[k] and
\* <<1, n, k>> is mfes[n][k]
Places ==
    {<<0, <<>>, k>> : k \in 1..Len(interactionMap.shell)}
    \cup UNION {{<<1, n, k>> : k \in 1..Len(interactionMap.mfes[n])} :
                   n \in DOMAIN interactionMap.mfes}

PlacedAt(p) ==
    IF p[1] = 0 THEN interactionMap.shell[p[3]] ELSE interactionMap.mfes[p[2]][p[3]]

\* C1: the buckets hold as many entries as were extracted, and every
\* extracted element is at exactly one place of exactly one bucket.
C1_EveryElementInOneBucket ==
    MapDone =>
        /\ Cardinality(Places) = Len(elements)
        /\ \A i \in 1..Len(elements) :
              Cardinality({p \in Places : PlacedAt(p) = elements[i]}) = 1

\* C1 witness: two extracted elements, one in the shell bucket and one in an
\* MFE's bucket, under an analysis in which two MFEs share a name.
C1_Witness ==
    /\ MapDone
    /\ Len(elements) = 2
    /\ Len(interactionMap.shell) = 1
    /\ \E n \in DOMAIN interactionMap.mfes : Len(interactionMap.mfes[n]) = 1
    /\ Cardinality(KnownMfeNames) < Len(mfeAnalysis.mfes)

\* C2: the keys of InteractionMap.mfes are exactly the names of
\* MfeAnalysis.mfes, and a name that owns no element has the empty bucket.
C2_BucketPerKnownName ==
    MapDone =>
        /\ DOMAIN interactionMap.mfes = KnownMfeNames
        /\ \A n \in KnownMfeNames :
              (\A i \in 1..Len(elements) : elements[i].mfeOwner # n)
                  => interactionMap.mfes[n] = <<>>

\* C2 witness: one known name with an empty bucket beside one with elements.
C2_Witness ==
    /\ MapDone
    /\ \E n \in KnownMfeNames : interactionMap.mfes[n] = <<>>
    /\ \E n \in KnownMfeNames : interactionMap.mfes[n] # <<>>

\* C9: every extracted element has no mfeOwner or the name of an entry of
\* the analysis, and the shell bucket holds only elements without mfeOwner.
C9_ShellBucketHasNoOwners ==
    /\ \A i \in 1..Len(elements) :
          elements[i].mfeOwner = Null \/ elements[i].mfeOwner \in KnownMfeNames
    /\ MapDone =>
          \A k \in 1..Len(interactionMap.shell) : interactionMap.shell[k].mfeOwner = Null

\* the queries of the three passes that match an element
MatchingPasses(element) ==
    {pass \in {"buttons", "links", "inputs"} : QueryMatches(pass, element)}

\* the first pass, in the order buttons, links, inputs, whose query matches
FirstMatchingPass(element) ==
    IF "buttons" \in MatchingPasses(element) THEN "buttons"
    ELSE IF "links" \in MatchingPasses(element) THEN "links"
    ELSE "inputs"

\* the entries of the elements array made from the element at position i
EntriesOf(i) == {k \in 1..Len(elements) : elements[k].node = i}

\* C10 as claimed: an element matched by the queries of more than one pass
\* yields exactly one InteractiveElement.
C10_OneEntryPerSharedElement ==
    ExtractionDone =>
        \A i \in 1..Len(document) :
            Cardinality(MatchingPasses(document[i])) > 1
                => Cardinality(EntriesOf(i)) = 1

\* C10 as amended: an element matched by the queries of more than one pass
\* is visited once, by the first pass whose query matches it; it yields one
\* InteractiveElement, with its resolved role, when that pass accepts the
\* role, and none otherwise; never two.
C10_FirstMatchingPassDecides ==
    ExtractionDone =>
        \A i \in 1..Len(document) :
            Cardinality(MatchingPasses(document[i])) > 1
                => /\ i \in processedElements
                   /\ IF AcceptsRole(FirstMatchingPass(document[i]), getRole(document[i]))
                      THEN /\ Cardinality(EntriesOf(i)) = 1
                           /\ \A k \in EntriesOf(i) : elements[k].role = getRole(document[i])
                      ELSE EntriesOf(i) = {}

\* C10 witness: a link with role="button", matched by the button and the
\* link queries, has its one entry, made by the button pass.
C10_Witness ==
    /\ ExtractionDone
    /\ \E i \in 1..Len(document) :
          /\ MatchingPasses(document[i]) = {"buttons", "links"}
          /\ Cardinality(EntriesOf(i)) = 1
          /\ \A k \in EntriesOf(i) : elements[k].role = r_button

\* the closed set of roles of an InteractiveElement
ClosedRoles == {r_button, r_link, r_textbox, r_combobox, r_checkbox, r_radio, r_generic}

\* C11: at every point of the extraction, every entry of the elements array
\* has a role of the closed set, whatever role attributes the document has.
C11_RolesInClosedSet ==
    \A k \in 1..Len(elements) : elements[k].role \in ClosedRoles

\* C11 witness: the extraction is over, the document has an element whose
\* role attribute is outside the closed set and that a query matched, and an
\* entry whose role was taken from a role attribute was produced.
C11_Witness ==
    /\ ExtractionDone
    /\ \E i \in 1..Len(document) :
          /\ Truthy(document[i].role)
          /\ document[i].role \notin ClosedRoles
          /\ i \in processedElements
    /\ \E k \in 1..Len(elements) :
          /\ Truthy(document[elements[k].node].role)
          /\ elements[k].role = document[elements[k].node].role

\* ------------------------------------------------------------------------
\* getAccessibleName on its own
\* ------------------------------------------------------------------------

\* the values of the naming attributes and of the text content
NameValue ==
    [blank  |-> <<" ", " ">>,
     submit |-> <<" ", "S","u","b","m","i","t", " ">>,
     go     |-> <<"G","o">>,
     name   |-> <<"N","a","m","e">>,
     tip    |-> <<"T","i","p">>,
     send   |-> <<"S","e","n","d">>,
     logo   |-> <<"L","o","g","o">>]

\* the elements given to getAccessibleName: every tag the mapper extracts
\* and a div, with each naming attribute absent, empty or blank, and set.
\* An input has no text content and no contained image; only an input has
\* a type and a value.
NameElements ==
    {el \in [tagName : {HtmlTag.a, HtmlTag.button, HtmlTag.input, HtmlTag.textarea, HtmlTag.select, HtmlTag.div},
             role : {Null}, type : {Null, ty_checkbox}, href : {Null}, id : {Null},
             class : {Null}, name : {Null},
             ariaLabel : {Null, <<>>, NameValue.blank, NameValue.submit},
             textContent : {<<>>, NameValue.blank, NameValue.go},
             placeholder : {Null, NameValue.blank, NameValue.name},
             title : {Null, NameValue.blank, NameValue.tip},
             value : {Null, <<>>, NameValue.send},
             imgAlt : {Null, <<>>, NameValue.logo},
             onclick : {Null}, tabindex : {Null}, dataMfe : {Null},
             dataMicrofrontend : {Null}, dataRemote : {Null}, ancestors : {<<>>}] :
        /\ el.tagName = HtmlTag.input => el.textContent = <<>> /\ el.imgAlt = Null
        /\ el.tagName # HtmlTag.input => el.type = Null /\ el.value = Null}

InitName ==
    /\ pc = "name"
    /\ subject \in NameElements
    /\ accessibleName = Null
    /\ mfeOwner = Null
    /\ DetectorIdle
    /\ MapperIdle
    /\ GenerateIdle

\* the call getAccessibleName(element) and its return
GetAccessibleName ==
    /\ pc = "name"
    /\ accessibleName' = getAccessibleName(subject)
    /\ pc' = "named"
    /\ UNCHANGED <<subject, mfeOwner, detectVars, mapVars, generateVars>>

NextName == GetAccessibleName

SpecName == InitName /\ [][NextName]_vars

\* the candidates of the accessible name in the claimed order; Null where
\* the candidate does not apply to the element's tag
NameCandidates(el) ==
    <<el.ariaLabel,
      IF toLowerCase(el.tagName) \in {t_a, t_button} THEN el.textContent ELSE Null,
      IF toLowerCase(el.tagName) \in {t_input, t_textarea} THEN el.placeholder ELSE Null,
      el.title,
      IF toLowerCase(el.tagName) = t_input THEN InputValue(el) ELSE Null,
      el.imgAlt>>

\* the positions of the candidates that are present and not blank
UsableCandidates(el) ==
    {k \in 1..Len(NameCandidates(el)) :
        /\ NameCandidates(el)[k] # Null
        /\ \E j \in 1..Len(NameCandidates(el)[k]) : NameCandidates(el)[k][j] \notin WhiteSpace}

\* C12: the name returned is the first candidate, in the order aria-label,
\* text content, placeholder, title, value, image alt, that is not blank,
\* trimmed, and the lower-cased tag name when there is none; a non-blank
\* aria-label wins over the text content; the name is never empty.
C12_FirstNonBlankCandidate ==
    pc = "named" =>
        /\ IF UsableCandidates(subject) = {}
           THEN accessibleName = toLowerCase(subject.tagName)
           ELSE LET first == CHOOSE k \in UsableCandidates(subject) :
                                 \A j \in UsableCandidates(subject) : k <= j
                IN  accessibleName = trim(NameCandidates(subject)[first])
        /\ 1 \in UsableCandidates(subject) => accessibleName = trim(subject.ariaLabel)
        /\ accessibleName # <<>>

\* C12 witness: a button with aria-label " Submit " and text content "Go"
\* was named "Submit".
C12_Witness ==
    /\ pc = "named"
    /\ toLowerCase(subject.tagName) = t_button
    /\ subject.ariaLabel = NameValue.submit
    /\ subject.textContent = NameValue.go
    /\ accessibleName = <<"S","u","b","m","i","t">>

\* ------------------------------------------------------------------------
\* inferMfeOwner on its own
\* ------------------------------------------------------------------------

\* the values of the ownership-hint attributes
Hint ==
    [zzz      |-> <<"z","z","z">>,
     both     |-> <<"A","-","C","O","M"," ","M","F","E","-","3","0","0","1">>,
     port     |-> <<"3","0","0","1">>,
     checkout |-> <<"m","f","e","-","3","0","0","1","-","c","h","e","c","k","o","u","t">>]

\* the ancestors of the element: <div>, <div id="" class="row">,
\* <div class="remote-box">, <div id="a-com-root"> and
\* <div id="shell" class="A-COM Remote">
Ancestor ==
    [plain       |-> [id |-> Null, class |-> Null],
     row         |-> [id |-> <<>>, class |-> <<"r","o","w">>],
     remote_box  |-> [id |-> Null, class |-> <<"r","e","m","o","t","e","-","b","o","x">>],
     acom_root   |-> [id |-> <<"a","-","c","o","m","-","r","o","o","t">>, class |-> Null],
     acom_remote |-> [id |-> <<"s","h","e","l","l">>,
                      class |-> <<"A","-","C","O","M"," ","R","e","m","o","t","e">>]]

AncestorUniverse == {Ancestor.plain, Ancestor.row, Ancestor.remote_box, Ancestor.acom_root, Ancestor.acom_remote}

\* the elements given to inferMfeOwner: a button with each combination of
\* the three hint attributes, under each chain of at most MaxAncestors
\* ancestors
OwnerElements ==
    {[BaseElement EXCEPT !.tagName = HtmlTag.button,
                         !.dataMfe = h[1],
                         !.dataMicrofrontend = h[2],
                         !.dataRemote = h[3],
                         !.ancestors = chain] :
        h \in {Null, <<>>, Hint.zzz, Hint.both}
              \X {Null, Hint.port}
              \X {Null, Hint.checkout},
        chain \in SeqsUpTo(AncestorUniverse, MaxAncestors)}

InitOwner ==
    /\ pc = "owner"
    /\ subject \in OwnerElements
    /\ mfeAnalysis \in Analyses
    /\ accessibleName = Null
    /\ mfeOwner = Null
    /\ document = <<>>
    /\ elements = <<>>
    /\ processedElements = {}
    /\ interactionMap = [shell |-> <<>>, mfes |-> <<>>]
    /\ DetectorIdle
    /\ GenerateIdle

\* the call inferMfeOwner(element, mfeAnalysis, dom) and its return
InferMfeOwner ==
    /\ pc = "owner"
    /\ mfeOwner' = inferMfeOwner(subject, mfeAnalysis)
    /\ pc' = "owned"
    /\ UNCHANGED <<subject, accessibleName, detectVars, mapVars, generateVars>>

NextOwner == InferMfeOwner

SpecOwner == InitOwner /\ [][NextOwner]_vars

\* a and b contain one another, case-insensitively: one of them is a
\* substring of the other
ContainOneAnother(a, b) ==
    \/ includes(toLowerCase(a), toLowerCase(b))
    \/ includes(toLowerCase(b), toLowerCase(a))

\* the non-empty values of the ownership-hint attributes of the element
HintValues(el) ==
    {v \in {el.dataMfe, el.dataMicrofrontend, el.dataRemote} : v # Null /\ v # <<>>}

\* the first non-empty value among data-mfe, data-microfrontend and
\* data-remote, in that order; Null when there is none
FirstHint(el) ==
    IF el.dataMfe # Null /\ el.dataMfe # <<>> THEN el.dataMfe
    ELSE IF el.dataMicrofrontend # Null /\ el.dataMicrofrontend # <<>>
    THEN el.dataMicrofrontend
    ELSE IF el.dataRemote # Null /\ el.dataRemote # <<>> THEN el.dataRemote
    ELSE Null

\* the positions of the MFEs whose name and one of the given values contain
\* one another
MfesMatching(values) ==
    {k \in 1..Len(mfeAnalysis.mfes) :
        \E v \in values : ContainOneAnother(v, mfeAnalysis.mfes[k].name)}

\* the least member of a non-empty set of positions
First(S) == CHOOSE k \in S : \A j \in S : k <= j

\* C13 as claimed: when some hint attribute of the element has a value that
\* matches an MFE name, the result is the name of the first MFE matched by
\* a hint attribute.
C13_AnyHintDecides ==
    (pc = "owned" /\ MfesMatching(HintValues(subject)) # {})
        => mfeOwner = mfeAnalysis.mfes[First(MfesMatching(HintValues(subject)))].name

\* what inferMfeOwner does instead: only the first non-empty hint attribute,
\* in the order data-mfe, data-microfrontend, data-remote, is compared; when
\* its value matches an MFE name the result is the name of the first MFE it
\* matches, whatever the ancestors are.
FirstHintDecides ==
    (pc = "owned" /\ FirstHint(subject) # Null
                  /\ MfesMatching({FirstHint(subject)}) # {})
        => mfeOwner = mfeAnalysis.mfes[First(MfesMatching({FirstHint(subject)}))].name

\* a case of FirstHintDecides: the hint matches two MFEs of different names
\* and the first was returned, although the nearest ancestor names the other.
FirstHintDecides_Reached ==
    /\ pc = "owned"
    /\ FirstHint(subject) # Null
    /\ Cardinality(MfesMatching({FirstHint(subject)})) = 2
    /\ mfeAnalysis.mfes[1].name # mfeAnalysis.mfes[2].name
    /\ mfeOwner = mfeAnalysis.mfes[1].name
    /\ Len(subject.ancestors) > 0
    /\ subject.ancestors[1] = Ancestor.acom_root
    /\ mfeAnalysis.mfes[2].name = <<"a","-","c","o","m">>

\* the ancestor walk is reached: no hint attribute is set, or the first
\* non-empty one matches no MFE (this includes every element none of whose
\* hint attributes matches)
WalkReached ==
    FirstHint(subject) = Null \/ MfesMatching({FirstHint(subject)}) = {}

\* the ancestor at position i has an id or a class, so that its text is built
HasText(i) ==
    \/ subject.ancestors[i].id # Null /\ subject.ancestors[i].id # <<>>
    \/ subject.ancestors[i].class # Null /\ subject.ancestors[i].class # <<>>

\* the lower-cased 'id class' text of the ancestor at position i
TextOf(i) ==
    toLowerCase((IF subject.ancestors[i].id = Null THEN <<>> ELSE subject.ancestors[i].id)
                \o <<" ">>
                \o (IF subject.ancestors[i].class = Null THEN <<>>
                    ELSE subject.ancestors[i].class))

HasMarker(i) ==
    \E m \in {s_mfe, s_remote, s_microfrontend} : includes(TextOf(i), m)

\* the positions of the MFEs whose lower-cased name the text contains
NamedIn(i) ==
    {k \in 1..Len(mfeAnalysis.mfes) :
        includes(TextOf(i), toLowerCase(mfeAnalysis.mfes[k].name))}

\* the ancestors whose text contains an MFE's name or a generic marker
DecidingAncestors ==
    {i \in 1..Len(subject.ancestors) : HasText(i) /\ (HasMarker(i) \/ NamedIn(i) # {})}

\* C14: in the ancestor walk, the result is absent when there is no MFE or
\* no ancestor whose text contains an MFE's name or a generic marker;
\* otherwise the nearest such ancestor decides: the first MFE of the list
\* when its text contains a generic marker, whichever names it contains,
\* and else the first MFE whose name it contains.
C14_NearestAncestorDecides ==
    (pc = "owned" /\ WalkReached) =>
        IF mfeAnalysis.mfes = <<>> \/ DecidingAncestors = {}
        THEN mfeOwner = Null
        ELSE IF HasMarker(First(DecidingAncestors))
        THEN mfeOwner = mfeAnalysis.mfes[1].name
        ELSE mfeOwner = mfeAnalysis.mfes[First(NamedIn(First(DecidingAncestors)))].name

\* C14 witness: the nearest ancestor with a match is the second one; its
\* text has a generic marker and the name of the second MFE, and the first
\* MFE, of another name, was returned.
C14_Witness ==
    /\ pc = "owned"
    /\ WalkReached
    /\ Len(mfeAnalysis.mfes) = 2
    /\ First(DecidingAncestors \cup {3}) = 2
    /\ HasMarker(2)
    /\ NamedIn(2) = {2}
    /\ mfeOwner = mfeAnalysis.mfes[1].name
    /\ mfeOwner # mfeAnalysis.mfes[2].name

\* ------------------------------------------------------------------------
\* The visited set of the extraction
\* ------------------------------------------------------------------------

\* the forEach of the pass has run to its end
PassDone(pass) ==
    IF pass = "buttons" THEN pc # "buttons"
    ELSE IF pass = "links" THEN pc \notin {"buttons", "links"}
    ELSE pc \notin {"buttons", "links", "inputs"}

\* C15: an element whose resolved role is rejected by the first pass whose
\* query matches it is in the visited set once that pass has run, and has no
\* entry in the output at any time, whatever the later passes match.
C15_RejectedByFirstPassNeverEmitted ==
    \A i \in 1..Len(document) :
        (/\ MatchingPasses(document[i]) # {}
         /\ ~AcceptsRole(FirstMatchingPass(document[i]), getRole(document[i])))
            => /\ EntriesOf(i) = {}
               /\ PassDone(FirstMatchingPass(document[i])) => i \in processedElements

\* the element at position i is matched and rejected by the button pass,
\* and matched by the query of a later pass that accepts its resolved role
RejectedButtonOfLaterCategory(i) ==
    /\ MatchesButtonQuery(document[i])
    /\ getRole(document[i]) # r_button
    /\ \E pass \in {"links", "inputs"} :
          /\ QueryMatches(pass, document[i])
          /\ AcceptsRole(pass, getRole(document[i]))

\* C15 witness: the extraction is over on a document of a button tag with
\* role="link" and an input of type submit with role="textbox"; both are in
\* the visited set and the output is empty.
C15_Witness ==
    /\ ExtractionDone
    /\ Len(document) = 2
    /\ \A i \in 1..2 : RejectedButtonOfLaterCategory(i) /\ i \in processedElements
    /\ TagName(document[1]) = t_button
    /\ document[1].role = r_link
    /\ TagName(document[2]) = t_input
    /\ document[2].type = ty_submit
    /\ document[2].role = r_textbox
    /\ elements = <<>>

\* ------------------------------------------------------------------------
\* generate, step by step: the check of the analysis files, analyze, and
\* generateTests.  files and tests are the names of the files present under
\* outputs/ and generated-tests/.
\* ------------------------------------------------------------------------

f_snapshot == "page-snapshot.json"

f_mfe_analysis == "mfe-analysis.json"

f_interaction_map == "interaction-map.json"

f_page_load_test == "page-load.spec.ts"

f_button_clicks_test == "button-clicks.spec.ts"

OutputFiles == {f_snapshot, f_mfe_analysis, f_interaction_map}

TestFiles == {f_page_load_test, f_button_clicks_test}

\* generate is entered with any of the files left by earlier runs
InitGenerate ==
    /\ pc = "generate"
    /\ files \in SUBSET OutputFiles
    /\ tests \in SUBSET TestFiles
    /\ needsAnalysis = FALSE
    /\ browser = "null"
    /\ DetectorIdle
    /\ MapperIdle
    /\ ResolversIdle

\* the try block of generate: readFile of the snapshot, then of the
\* interaction map; a read that fails sets needsAnalysis in the catch
CheckAnalysisData ==
    /\ pc = "generate"
    /\ needsAnalysis' = ~(f_snapshot \in files /\ f_interaction_map \in files)
    /\ pc' = "checked"
    /\ UNCHANGED <<files, tests, browser, detectVars, mapVars, resolveVars>>

\* if (needsAnalysis) await analyze(url): analyze is entered
EnterAnalyze ==
    /\ pc = "checked"
    /\ needsAnalysis
    /\ pc' = "launch"
    /\ UNCHANGED <<generateVars, detectVars, mapVars, resolveVars>>

\* chromium.launch: the browser is open, or the launch throws with browser
\* still null, and the error passes through analyze and generate
LaunchBrowser ==
    /\ pc = "launch"
    /\ \/ browser' = "open" /\ pc' = "capture"
       \/ browser' = browser /\ pc' = "failed"
    /\ UNCHANGED <<files, tests, needsAnalysis, detectVars, mapVars, resolveVars>>

\* newContext, newPage, goto and the captures of the page: they succeed, or
\* one of them throws and the finally block closes the browser
CapturePage ==
    /\ pc = "capture"
    /\ \/ browser' = browser /\ pc' = "save"
       \/ browser' = "closed" /\ pc' = "failed"
    /\ UNCHANGED <<files, tests, needsAnalysis, detectVars, mapVars, resolveVars>>

\* saveJsonFile(outputPath, snapshot)
SaveSnapshot ==
    /\ pc = "save"
    /\ files' = files \cup {f_snapshot}
    /\ pc' = "analyzeMfe"
    /\ UNCHANGED <<tests, needsAnalysis, browser, detectVars, mapVars, resolveVars>>

\* analyzeMfe(outputPath): reads the snapshot, runs detectMfe and saves the
\* MFE analysis
AnalyzeMfe ==
    /\ pc = "analyzeMfe"
    /\ f_snapshot \in files
    /\ files' = files \cup {f_mfe_analysis}
    /\ pc' = "close"
    /\ UNCHANGED <<tests, needsAnalysis, browser, detectVars, mapVars, resolveVars>>

\* the finally block of analyze closes the browser; analyze returns
CloseBrowser ==
    /\ pc = "close"
    /\ browser' = "closed"
    /\ pc' = "analyzed"
    /\ UNCHANGED <<files, tests, needsAnalysis, detectVars, mapVars, resolveVars>>

\* await generateTests(snapshotPath, interactionMapPath): generateTests is
\* entered, after analyze or without it
EnterGenerateTests ==
    /\ \/ pc = "checked" /\ ~needsAnalysis
       \/ pc = "analyzed"
    /\ pc' = "generateTests"
    /\ UNCHANGED <<generateVars, detectVars, mapVars, resolveVars>>

\* readFile of the snapshot, then of the interaction map; a read of a
\* missing file throws, and the error passes through generate
ReadAnalysisData ==
    /\ pc = "generateTests"
    /\ pc' = IF f_snapshot \in files /\ f_interaction_map \in files
             THEN "write" ELSE "failed"
    /\ UNCHANGED <<generateVars, detectVars, mapVars, resolveVars>>

\* the page load test is written, and the button click test when the
\* interaction map has test cases for it
WriteTests ==
    /\ pc = "write"
    /\ \E hasButtonTests \in BOOLEAN :
          tests' = tests \cup {f_page_load_test}
                         \cup (IF hasButtonTests THEN {f_button_clicks_test} ELSE {})
    /\ pc' = "generated"
    /\ UNCHANGED <<files, needsAnalysis, browser, detectVars, mapVars, resolveVars>>

NextGenerate ==
    \/ CheckAnalysisData
    \/ EnterAnalyze
    \/ LaunchBrowser
    \/ CapturePage
    \/ SaveSnapshot
    \/ AnalyzeMfe
    \/ CloseBrowser
    \/ EnterGenerateTests
    \/ ReadAnalysisData
    \/ WriteTests

SpecGenerate == InitGenerate /\ [][NextGenerate]_vars

\* the first half of C16, which holds: analyze is needed exactly when one of
\* the two files is missing at the check, and generateTests is then entered
\* only after analyze has run to its end
AnalyzeRunsWhenDataMissing ==
    /\ pc = "checked"
          => (needsAnalysis <=> ~(f_snapshot \in files /\ f_interaction_map \in files))
    /\ (pc = "generateTests" /\ needsAnalysis)
          => (browser = "closed" /\ {f_snapshot, f_mfe_analysis} \subseteq files)

\* C16: analyze runs first when the snapshot or the interaction map is
\* missing, and whenever generateTests is entered both files it reads,
\* page-snapshot.json and interaction-map.json, are present.
C16_TestsStartWithBothFiles ==
    /\ AnalyzeRunsWhenDataMissing
    /\ pc = "generateTests" => {f_snapshot, f_interaction_map} \subseteq files

====
